---- MODULE Spec2Model ----
(***************************************************************************)
(* Signaling relay of webrtc-video-conference (src/server.js): the two     *)
(* in-memory registries `rooms` and `clients`, the WebSocket handlers      *)
(* handleJoin, handleSignaling and handleLeave, and the transport events   *)
(* that invoke them.  Every handler runs to completion (or to the point    *)
(* where it throws) in one step: Node runs them on one thread.             *)
(***************************************************************************)
EXTENDS Integers, Sequences, FiniteSets, TLC

\* ------------------------------------------------------------------ bounds

\* Number of WebSocket connections the server accepts in one run.
NumConns == 2

\* Number of saveRoomToDB calls that reach the store in one run.
MaxSaves == 3

\* Number of messages one connection sends in a run that tracks the order.
MaxMsgs == 3

Conns == 1..NumConns

\* The value of a field that is missing from a parsed message (JS undefined).
Undefined == "undefined"

\* Room ids a join may carry.
RoomIds == {"r1", "r2"}
RoomVals == RoomIds

\* Client ids a join may carry (client-generated, not unique), and the values
\* of the targetId and fromId fields of a signaling message.
ClientIds == {"a", "b"}
IdVals == ClientIds \cup {Undefined}

\* Opaque negotiation payloads.
Payloads == {"p1"}

SignalTypes == {"offer", "answer", "ice-candidate"}

\* Message types the switch of ws.on('message') has no case for.
OtherTypes == {"chat", Undefined}

\* ------------------------------------------------------------------- state

VARIABLES
  rooms,       \* Map roomId -> insertion-ordered Set of connections
  clients,     \* Map ws -> [id, roomId]
  readyState,  \* per connection: "NONE" (not yet accepted), "OPEN", "CLOSING", "CLOSED"
  sent,        \* what the last handler wrote, in order: <<[to, msg], ...>>
  ev,          \* the last event handled
  crashed,     \* an exception escaped an event listener: the process is gone
  env,         \* process.env.COUCHDB_URL, Undefined when it is not set
  roomsDb,     \* whether initCouchDB assigned roomsDb
  store,       \* the documents of the webrtc_rooms database, by _id
  pending,     \* the saveRoomToDB calls that are suspended at an await
  clock,       \* the number of timestamps taken so far (new Date())
  lastSnapshot, \* per roomId, the participants of the last save that was started
  inbox,       \* per connection, the messages it sent that are not yet handled
  outbox,      \* per connection, what the server wrote to it so far, in order
  nsent,       \* per connection, the number of messages it sent
  app          \* per connection, the state of the VideoConference client behind it

\* The clients and the transport between them and the server: TCP delivers
\* in order in both directions.
qvars == <<inbox, outbox, nsent, app>>

dbvars == <<env, roomsDb, store, pending, clock, lastSnapshot>>

vars == <<rooms, clients, readyState, sent, ev, crashed, dbvars, qvars>>

\* ------------------------------------------------------- Map / Set helpers

MapSet(m, k, v) == [x \in DOMAIN m \cup {k} |-> IF x = k THEN v ELSE m[x]]

MapDelete(m, k) == [x \in DOMAIN m \ {k} |-> m[x]]

Members(room) == {room[i] : i \in 1..Len(room)}

\* Set.add keeps the insertion order and ignores an element already present.
SetAdd(room, ws) == IF ws \in Members(room) THEN room ELSE Append(room, ws)

SetDelete(room, ws) == SelectSeq(room, LAMBDA x : x # ws)

IsOpen(rs, c) == rs[c] = "OPEN"

\* Array.from(room).map(client => clients.get(client).id) throws a TypeError
\* when a member has no entry in `clients`.
IdsThrows(room, cl) == \E i \in 1..Len(room) : room[i] \notin DOMAIN cl

IdsOf(room, cl) == [i \in 1..Len(room) |-> cl[room[i]].id]

\* ---------------------------------------------------------------- messages

ExistingClientsMsg(list) == [type |-> "existing-clients", clients |-> list]

NewClientMsg(clientId) == [type |-> "new-client", clientId |-> clientId]

ClientLeftMsg(clientId) == [type |-> "client-left", clientId |-> clientId]

JoinMsgs == [type : {"join"}, roomId : RoomVals, clientId : ClientIds]

SignalMsgs ==
  [type : SignalTypes, targetId : IdVals, payload : Payloads, fromId : IdVals]

LeaveMsg == [type |-> "leave"]

NoPersist == << >>

\* ---------------------------------------------------------------- handlers

\* Variant: the list is taken after room.add(ws).
ExistingClientsAfterAdd(room, ws, cl) == IdsOf(SetAdd(room, ws), cl)

\* existingClients of handleJoin: the ids of the room before room.add(ws).
ExistingClients(room, ws, cl) == IdsOf(room, cl)

\* room.forEach(client => client !== ws && client.readyState === 1 && send)
JoinNotices(room, ws, rs, clientId) ==
  LET tg == SelectSeq(room, LAMBDA c : c # ws /\ IsOpen(rs, c))
  IN  [i \in 1..Len(tg) |-> [to |-> tg[i], msg |-> NewClientMsg(clientId)]]

\* Variant: a connection that is already bound leaves its recorded room
\* before it is bound again.
handleJoinLeavesOldRoom(ws, data) ==
  LET roomId == data.roomId
      clientId == data.clientId
      old == IF ws \in DOMAIN clients /\ clients[ws].roomId \in DOMAIN rooms
             THEN LET o == clients[ws].roomId
                      left == SetDelete(rooms[o], ws)
                  IN  IF Len(left) = 0 THEN MapDelete(rooms, o)
                      ELSE MapSet(rooms, o, left)
             ELSE rooms
      cl == MapSet(clients, ws, [id |-> clientId, roomId |-> roomId])
      rms == IF roomId \in DOMAIN old THEN old ELSE MapSet(old, roomId, << >>)
      room == rms[roomId]
  IN  IF IdsThrows(room, cl)
      THEN [clients |-> cl, rooms |-> rms, sent |-> << >>,
            threw |-> TRUE, persist |-> NoPersist]
      ELSE LET room2 == SetAdd(room, ws)
           IN  [clients |-> cl,
                rooms |-> MapSet(rms, roomId, room2),
                sent |-> <<[to |-> ws,
                            msg |-> ExistingClientsMsg(ExistingClients(room, ws, cl))]>>
                         \o JoinNotices(room2, ws, readyState, clientId),
                threw |-> FALSE,
                persist |-> <<[roomId |-> roomId, participants |-> IdsOf(room2, cl)]>>]

handleJoin(ws, data) ==
  LET roomId == data.roomId
      clientId == data.clientId
      cl == MapSet(clients, ws, [id |-> clientId, roomId |-> roomId])
      rms == IF roomId \in DOMAIN rooms THEN rooms ELSE MapSet(rooms, roomId, << >>)
      room == rms[roomId]
  IN  IF IdsThrows(room, cl)
      THEN [clients |-> cl, rooms |-> rms, sent |-> << >>,
            threw |-> TRUE, persist |-> NoPersist]
      ELSE LET room2 == SetAdd(room, ws)
           IN  [clients |-> cl,
                rooms |-> MapSet(rms, roomId, room2),
                sent |-> <<[to |-> ws,
                            msg |-> ExistingClientsMsg(ExistingClients(room, ws, cl))]>>
                         \o JoinNotices(room2, ws, readyState, clientId),
                threw |-> FALSE,
                persist |-> <<[roomId |-> roomId, participants |-> IdsOf(room2, cl)]>>]

\* Variant: {fromId: client.id, ...data}, an inbound fromId wins.
RelayMsgKeepFromId(data, client) ==
  IF data.fromId # Undefined THEN data ELSE [data EXCEPT !.fromId = client.id]

\* The message handleSignaling forwards: {...data, fromId: client.id}.
RelayMsg(data, client) == [data EXCEPT !.fromId = client.id]

\* Variant: the targetId comparison is dropped.
SignalTargetsAnyId(room, cl, rs, data) ==
  SelectSeq(room, LAMBDA t : t \in DOMAIN cl /\ IsOpen(rs, t))

\* The members handleSignaling forwards to: targetClient && targetClient.id ===
\* data.targetId && targetWs.readyState === 1.
SignalTargets(room, cl, rs, data) ==
  SelectSeq(room, LAMBDA t : /\ t \in DOMAIN cl
                             /\ cl[t].id = data.targetId
                             /\ IsOpen(rs, t))

\* Variant: a sender without identity is answered with an error message.
handleSignalingReplies(ws, data) ==
  IF ws \notin DOMAIN clients
  THEN <<[to |-> ws, msg |-> [type |-> "error", reason |-> "not joined"]]>>
  ELSE LET client == clients[ws]
       IN  IF client.roomId \notin DOMAIN rooms THEN << >>
           ELSE LET tg == SignalTargets(rooms[client.roomId], clients, readyState, data)
                IN  [i \in 1..Len(tg) |-> [to |-> tg[i], msg |-> RelayMsg(data, client)]]

handleSignaling(ws, data) ==
  IF ws \notin DOMAIN clients THEN << >>
  ELSE LET client == clients[ws]
       IN  IF client.roomId \notin DOMAIN rooms THEN << >>
           ELSE LET tg == SignalTargets(rooms[client.roomId], clients, readyState, data)
                IN  [i \in 1..Len(tg) |-> [to |-> tg[i], msg |-> RelayMsg(data, client)]]

\* room.forEach(otherWs => otherWs.readyState === 1 && send client-left)
LeaveNotices(room, rs, clientId) ==
  LET tg == SelectSeq(room, LAMBDA c : IsOpen(rs, c))
  IN  [i \in 1..Len(tg) |-> [to |-> tg[i], msg |-> ClientLeftMsg(clientId)]]

\* Variant: the empty room is kept.
CleanUpNever(rms, roomId) == rms

\* if (room.size === 0) rooms.delete(client.roomId)
CleanUp(rms, roomId) ==
  IF Len(rms[roomId]) = 0 THEN MapDelete(rms, roomId) ELSE rms

handleLeave(ws) ==
  IF ws \notin DOMAIN clients
  THEN [clients |-> clients, rooms |-> rooms, sent |-> << >>,
        threw |-> FALSE, persist |-> NoPersist]
  ELSE LET client == clients[ws]
       IN  IF client.roomId \notin DOMAIN rooms
           THEN [clients |-> MapDelete(clients, ws), rooms |-> rooms, sent |-> << >>,
                 threw |-> FALSE, persist |-> NoPersist]
           ELSE LET room == SetDelete(rooms[client.roomId], ws)
                    rms == MapSet(rooms, client.roomId, room)
                    notices == LeaveNotices(room, readyState, client.id)
                IN  IF IdsThrows(room, clients)
                    THEN [clients |-> clients, rooms |-> rms, sent |-> notices,
                          threw |-> TRUE, persist |-> NoPersist]
                    ELSE [clients |-> MapDelete(clients, ws),
                          rooms |-> CleanUp(rms, client.roomId),
                          sent |-> notices,
                          threw |-> FALSE,
                          persist |-> <<[roomId |-> client.roomId,
                                         participants |-> IdsOf(room, clients)]>>]

\* ------------------------------------------------------------- persistence

\* The URL that is hard-coded as the fallback of COUCHDB_URL.
DefaultCouchDbUrl == "https://team1-videoconfdb2"

\* const couchDbUrl = process.env.COUCHDB_URL || '<default>'
CouchDbUrl(e) == IF e # Undefined /\ e # "" THEN e ELSE DefaultCouchDbUrl

\* The outcomes of initCouchDB: roomsDb is assigned when the store at
\* couchDbUrl answered, and stays unassigned when the try block threw.
InitCouchDB(e) == IF CouchDbUrl(e) # Undefined THEN {TRUE, FALSE} ELSE {FALSE}

\* saveRoomToDB up to its first await: nothing when roomsDb is unassigned,
\* else the timestamp is taken and roomsDb.get(roomId) is under way.
NewSave(p, now) ==
  [roomId |-> p.roomId, participants |-> p.participants,
   timestamp |-> now, phase |-> "get", doc |-> << >>]

saveRoomToDB(persist) ==
  IF ~roomsDb \/ persist = NoPersist
  THEN /\ UNCHANGED dbvars
  ELSE /\ pending' = pending \cup {NewSave(persist[1], clock + 1)}
       /\ clock' = clock + 1
       /\ lastSnapshot' = MapSet(lastSnapshot, persist[1].roomId, persist[1].participants)
       /\ UNCHANGED <<env, roomsDb, store>>

\* The model stops taking events that would start a save once MaxSaves
\* timestamps were taken.
SaveBudget == ~roomsDb \/ clock < MaxSaves

\* Variant: the update also stamps createdAt.
UpdatedDocRestamped(doc, w) ==
  [doc EXCEPT !.participants = w.participants,
              !.lastActivity = w.timestamp,
              !.createdAt = w.timestamp,
              !.participantCount = Len(w.participants)]

\* doc after a successful get: participants, lastActivity, participantCount
\* are overwritten, the other fields (createdAt, _rev) are kept.
UpdatedDoc(doc, w) ==
  [doc EXCEPT !.participants = w.participants,
              !.lastActivity = w.timestamp,
              !.participantCount = Len(w.participants)]

\* doc after a 404: a new document, without _rev.
NewDoc(w) ==
  [roomId |-> w.roomId, participants |-> w.participants,
   participantCount |-> Len(w.participants),
   createdAt |-> w.timestamp, lastActivity |-> w.timestamp, rev |-> 0]

\* The store accepts an insert whose _rev is the stored one (none for a new
\* document) and answers 409 otherwise.
RevOf(st, roomId) == IF roomId \in DOMAIN st THEN st[roomId].rev ELSE 0

\* Variant: a failed save is started again.
SaveFailedRetries(w) ==
  (pending \ {w}) \cup {[w EXCEPT !.phase = "get", !.doc = << >>]}

\* catch (error) { console.error(...) }: the call ends, nothing else happens.
SaveFailed(w) == pending \ {w}

DbEvent(step, w) == [kind |-> "db", step |-> step, save |-> w]

\* doc = await roomsDb.get(roomId) resolves with the stored document.
GetFound(w) ==
  /\ w.phase = "get"
  /\ w.roomId \in DOMAIN store
  /\ pending' = (pending \ {w})
        \cup {[w EXCEPT !.phase = "insert", !.doc = <<UpdatedDoc(store[w.roomId], w)>>]}
  /\ ev' = DbEvent("get-found", w)
  /\ UNCHANGED store

\* roomsDb.get rejects with statusCode 404.
GetNotFound(w) ==
  /\ w.phase = "get"
  /\ w.roomId \notin DOMAIN store
  /\ pending' = (pending \ {w})
        \cup {[w EXCEPT !.phase = "insert", !.doc = <<NewDoc(w)>>]}
  /\ ev' = DbEvent("get-404", w)
  /\ UNCHANGED store

\* roomsDb.get rejects with another error (store unreachable): rethrown to
\* the outer catch.
GetFails(w) ==
  /\ w.phase = "get"
  /\ pending' = SaveFailed(w)
  /\ ev' = DbEvent("get-failed", w)
  /\ UNCHANGED store

\* await roomsDb.insert(doc) resolves: the document is stored under a new _rev.
InsertOk(w) ==
  /\ w.phase = "insert"
  /\ w.doc[1].rev = RevOf(store, w.roomId)
  /\ store' = MapSet(store, w.roomId, [w.doc[1] EXCEPT !.rev = @ + 1])
  /\ pending' = pending \ {w}
  /\ ev' = DbEvent("insert-ok", w)

\* roomsDb.insert rejects with 409: the stored _rev is not the one of doc.
InsertConflict(w) ==
  /\ w.phase = "insert"
  /\ w.doc[1].rev # RevOf(store, w.roomId)
  /\ pending' = SaveFailed(w)
  /\ ev' = DbEvent("insert-conflict", w)
  /\ UNCHANGED store

\* roomsDb.insert rejects because the store is unreachable.
InsertFails(w) ==
  /\ w.phase = "insert"
  /\ pending' = SaveFailed(w)
  /\ ev' = DbEvent("insert-failed", w)
  /\ UNCHANGED store

\* A suspended saveRoomToDB call resumes; it touches no registry and no socket.
DbStep ==
  /\ ~crashed
  /\ \E w \in pending :
       \/ GetFound(w)
       \/ GetNotFound(w)
       \/ GetFails(w)
       \/ InsertOk(w)
       \/ InsertConflict(w)
       \/ InsertFails(w)
  /\ UNCHANGED <<rooms, clients, readyState, sent, crashed, env, roomsDb, clock,
                 lastSnapshot>>
  /\ UNCHANGED qvars

\* The steps of a save while the store stays reachable: every get and insert
\* is answered.
DbStepReachable ==
  /\ ~crashed
  /\ \E w \in pending :
       \/ GetFound(w)
       \/ GetNotFound(w)
       \/ InsertOk(w)
       \/ InsertConflict(w)
  /\ UNCHANGED <<rooms, clients, readyState, sent, crashed, env, roomsDb, clock,
                 lastSnapshot>>
  /\ UNCHANGED qvars

\* ------------------------------------------------------------------ client

\* The constructor of VideoConference: no socket use yet, no peer connection.
\* `seen` counts the messages onmessage took, `tasks` are the suspended calls
\* that will send an offer or an answer, `ice` the peers for which a
\* candidate is still to be sent, `log` is what the client sent.
NewApp ==
  [joined |-> FALSE, seen |-> 0, pcs |-> {}, tasks |-> {}, ice |-> {},
   log |-> << >>]

\* generateClientId: a fresh id per client.
AppIds == <<"a", "b", "c", "d">>

\* getRoomFromURL: the clients are opened on the same room.
AppRoom == "r1"

\* Variant: new-client also starts an offer.
OnNewClientOffers(a, msg) ==
  [a EXCEPT !.pcs = @ \cup {msg.clientId},
            !.tasks = @ \cup {[kind |-> "offer", ids |-> <<msg.clientId>>]}]

\* case 'new-client': createPeerConnection(message.clientId, false).
OnNewClient(a, msg) == [a EXCEPT !.pcs = @ \cup {msg.clientId}]

\* case 'existing-clients': the loop awaits createPeerConnection(id, true)
\* for each id in turn; the first peer connection is set before the first
\* await.
OnExistingClients(a, msg) ==
  IF msg.clients = << >> THEN a
  ELSE [a EXCEPT !.pcs = @ \cup {Head(msg.clients)},
                 !.tasks = @ \cup {[kind |-> "offer", ids |-> msg.clients]}]

\* handleOffer: the peer connection of fromId is looked up or created, the
\* answer is sent after the awaits.
OnOffer(a, msg) ==
  [a EXCEPT !.pcs = @ \cup {msg.fromId},
            !.tasks = @ \cup {[kind |-> "answer", ids |-> <<msg.fromId>>]}]

\* handleClientLeft: the peer connection is closed and forgotten.
OnClientLeft(a, msg) == [a EXCEPT !.pcs = @ \ {msg.clientId}]

\* handleSignalingMessage; an answer or an ice-candidate only changes the
\* peer connection it belongs to.
handleSignalingMessage(a, msg) ==
  IF msg.type = "existing-clients" THEN OnExistingClients(a, msg)
  ELSE IF msg.type = "new-client" THEN OnNewClient(a, msg)
  ELSE IF msg.type = "offer" THEN OnOffer(a, msg)
  ELSE IF msg.type = "client-left" THEN OnClientLeft(a, msg)
  ELSE a

\* ------------------------------------------------------------------ events
\* A 'message' listener runs for a socket whose readyState is OPEN; `sent`
\* and `ev` describe the listener that ran last.

Init ==
  /\ rooms = << >>
  /\ clients = << >>
  /\ readyState = [c \in Conns |-> "NONE"]
  /\ sent = << >>
  /\ ev = [kind |-> "init"]
  /\ crashed = FALSE
  /\ env = Undefined
  /\ roomsDb = FALSE
  /\ store = << >>
  /\ pending = {}
  /\ clock = 0
  /\ lastSnapshot = << >>
  /\ inbox = [c \in Conns |-> << >>]
  /\ outbox = [c \in Conns |-> << >>]
  /\ nsent = [c \in Conns |-> 0]
  /\ app = [c \in Conns |-> NewApp]

\* wss.on('connection'): the listeners of a new socket are registered.
Connect(c) ==
  /\ ~crashed
  /\ readyState[c] = "NONE"
  /\ \A d \in Conns : d < c => readyState[d] # "NONE"
  /\ readyState' = [readyState EXCEPT ![c] = "OPEN"]
  /\ sent' = << >>
  /\ ev' = [kind |-> "connection", conn |-> c]
  /\ UNCHANGED <<rooms, clients, crashed, dbvars>>
  /\ UNCHANGED qvars

ReceiveJoin(c) ==
  /\ ~crashed
  /\ SaveBudget
  /\ readyState[c] = "OPEN"
  /\ \E data \in JoinMsgs :
       LET r == handleJoin(c, data)
       IN  /\ rooms' = r.rooms
           /\ clients' = r.clients
           /\ sent' = r.sent
           /\ ev' = [kind |-> "message", conn |-> c, data |-> data,
                     threw |-> r.threw, persist |-> r.persist]
           /\ saveRoomToDB(r.persist)
  /\ UNCHANGED <<readyState, crashed>>
  /\ UNCHANGED qvars

ReceiveSignal(c) ==
  /\ ~crashed
  /\ readyState[c] = "OPEN"
  /\ \E data \in SignalMsgs :
       /\ sent' = handleSignaling(c, data)
       /\ ev' = [kind |-> "message", conn |-> c, data |-> data,
                 threw |-> FALSE, persist |-> NoPersist]
  /\ UNCHANGED <<rooms, clients, readyState, crashed, dbvars>>
  /\ UNCHANGED qvars

\* case 'leave': an exception of handleLeave is caught by the try/catch of
\* the message listener.
ReceiveLeave(c) ==
  /\ ~crashed
  /\ SaveBudget
  /\ readyState[c] = "OPEN"
  /\ LET r == handleLeave(c)
     IN  /\ rooms' = r.rooms
         /\ clients' = r.clients
         /\ sent' = r.sent
         /\ ev' = [kind |-> "message", conn |-> c, data |-> LeaveMsg,
                   threw |-> r.threw, persist |-> r.persist]
         /\ saveRoomToDB(r.persist)
  /\ UNCHANGED <<readyState, crashed>>
  /\ UNCHANGED qvars

\* Variant: an unmatched type falls into the last case of the switch, 'leave'.
ReceiveOtherFallsToLeave(c) ==
  /\ ~crashed
  /\ readyState[c] = "OPEN"
  /\ \E t \in OtherTypes \cup {"<malformed>"} :
       LET r == IF t = "<malformed>"
                THEN [clients |-> clients, rooms |-> rooms, sent |-> << >>]
                ELSE handleLeave(c)
       IN  /\ rooms' = r.rooms
           /\ clients' = r.clients
           /\ sent' = r.sent
           /\ ev' = [kind |-> "message", conn |-> c, data |-> [type |-> t],
                     threw |-> (t = "<malformed>"), persist |-> NoPersist]
  /\ UNCHANGED <<readyState, crashed, dbvars>>
  /\ UNCHANGED qvars

\* A message JSON.parse rejects (the catch logs it), or one whose type no case
\* of the switch matches.
ReceiveOther(c) ==
  /\ ~crashed
  /\ readyState[c] = "OPEN"
  /\ \E t \in OtherTypes \cup {"<malformed>"} :
       ev' = [kind |-> "message", conn |-> c, data |-> [type |-> t],
              threw |-> (t = "<malformed>"), persist |-> NoPersist]
  /\ sent' = << >>
  /\ UNCHANGED <<rooms, clients, readyState, crashed, dbvars>>
  /\ UNCHANGED qvars

\* The transport starts its closing handshake; no listener of the server runs.
BeginClose(c) ==
  /\ ~crashed
  /\ readyState[c] = "OPEN"
  /\ readyState' = [readyState EXCEPT ![c] = "CLOSING"]
  /\ sent' = << >>
  /\ ev' = [kind |-> "closing", conn |-> c]
  /\ UNCHANGED <<rooms, clients, crashed, dbvars>>
  /\ UNCHANGED qvars

\* ws.on('close'): handleLeave(ws) with no try/catch around it; an exception
\* of handleLeave is uncaught and ends the process.
Close(c) ==
  /\ ~crashed
  /\ SaveBudget
  /\ readyState[c] \in {"OPEN", "CLOSING"}
  /\ readyState' = [readyState EXCEPT ![c] = "CLOSED"]
  /\ LET r == handleLeave(c)
     IN  /\ rooms' = r.rooms
         /\ clients' = r.clients
         /\ sent' = r.sent
         /\ crashed' = r.threw
         /\ ev' = [kind |-> "close", conn |-> c,
                   threw |-> r.threw, persist |-> r.persist]
         /\ saveRoomToDB(r.persist)
  /\ UNCHANGED qvars

\* Variant: the error listener calls handleLeave(ws).
SocketErrorLeaves(c) ==
  /\ ~crashed
  /\ readyState[c] \in {"OPEN", "CLOSING"}
  /\ LET r == handleLeave(c)
     IN  /\ rooms' = r.rooms
         /\ clients' = r.clients
         /\ sent' = r.sent
         /\ crashed' = r.threw
  /\ ev' = [kind |-> "error", conn |-> c]
  /\ UNCHANGED <<readyState, dbvars>>
  /\ UNCHANGED qvars

\* ws.on('error'): logs only.
SocketError(c) ==
  /\ ~crashed
  /\ readyState[c] \in {"OPEN", "CLOSING"}
  /\ sent' = << >>
  /\ ev' = [kind |-> "error", conn |-> c]
  /\ UNCHANGED <<rooms, clients, readyState, crashed, dbvars>>
  /\ UNCHANGED qvars

\* A join whose roomId is the empty string or is missing, next to joins for
\* one named room: handleJoin has no check of roomId, both are Map keys.
NoRoomIds == {"", Undefined}

NoRoomJoinMsgs ==
  [type : {"join"}, roomId : NoRoomIds \cup {"r1"}, clientId : ClientIds]

ReceiveJoinNoRoom(c) ==
  /\ ~crashed
  /\ SaveBudget
  /\ readyState[c] = "OPEN"
  /\ \E data \in NoRoomJoinMsgs :
       LET r == handleJoin(c, data)
       IN  /\ rooms' = r.rooms
           /\ clients' = r.clients
           /\ sent' = r.sent
           /\ ev' = [kind |-> "message", conn |-> c, data |-> data,
                     threw |-> r.threw, persist |-> r.persist]
           /\ saveRoomToDB(r.persist)
  /\ UNCHANGED <<readyState, crashed>>
  /\ UNCHANGED qvars

Next ==
  \E c \in Conns :
    \/ Connect(c)
    \/ ReceiveJoin(c)
    \/ ReceiveSignal(c)
    \/ ReceiveLeave(c)
    \/ ReceiveOther(c)
    \/ BeginClose(c)
    \/ Close(c)
    \/ SocketError(c)

Spec == Init /\ [][Next]_vars

\* The joins, leaves and closes of connections that may omit the roomId.
NextNoRoom ==
  \E c \in Conns :
    \/ Connect(c)
    \/ ReceiveJoinNoRoom(c)
    \/ ReceiveLeave(c)
    \/ BeginClose(c)
    \/ Close(c)

SpecNoRoom == Init /\ [][NextNoRoom]_vars

\* ws.on('message') for a join the transport had buffered when the socket
\* ended: the listener runs while ws.readyState is already CLOSING.
ReceiveJoinClosing(c) ==
  /\ ~crashed
  /\ SaveBudget
  /\ readyState[c] = "CLOSING"
  /\ \E data \in JoinMsgs :
       LET r == handleJoin(c, data)
       IN  /\ rooms' = r.rooms
           /\ clients' = r.clients
           /\ sent' = r.sent
           /\ ev' = [kind |-> "message", conn |-> c, data |-> data,
                     threw |-> r.threw, persist |-> r.persist]
           /\ saveRoomToDB(r.persist)
  /\ UNCHANGED <<readyState, crashed>>
  /\ UNCHANGED qvars

\* Joins and closes, with joins that are delivered during the close.
NextClosing ==
  \E c \in Conns :
    \/ Connect(c)
    \/ ReceiveJoin(c)
    \/ BeginClose(c)
    \/ ReceiveJoinClosing(c)
    \/ Close(c)

SpecClosing == Init /\ [][NextClosing]_vars

\* The messages a client sends as its n-th: a join, an offer whose opaque
\* payload is n, or a leave.
OrderMsgs(n) ==
  [type : {"join"}, roomId : {"r1"}, clientId : ClientIds]
    \cup [type : {"offer"}, targetId : ClientIds, payload : {n}, fromId : {Undefined}]
    \cup {LeaveMsg}

\* The client of connection c sends a message; the transport queues it.
ClientSend(c) ==
  /\ ~crashed
  /\ readyState[c] = "OPEN"
  /\ nsent[c] < MaxMsgs
  /\ \E data \in OrderMsgs(nsent[c] + 1) :
       /\ inbox' = [inbox EXCEPT ![c] = Append(@, data)]
       /\ ev' = [kind |-> "client-send", conn |-> c, data |-> data]
  /\ nsent' = [nsent EXCEPT ![c] = @ + 1]
  /\ sent' = << >>
  /\ UNCHANGED <<rooms, clients, readyState, crashed, dbvars, outbox, app>>

\* The switch of ws.on('message') on a parsed message.
Dispatch(ws, data) ==
  IF data.type = "join" THEN handleJoin(ws, data)
  ELSE IF data.type \in SignalTypes
  THEN [clients |-> clients, rooms |-> rooms, sent |-> handleSignaling(ws, data),
        threw |-> FALSE, persist |-> NoPersist]
  ELSE handleLeave(ws)

\* What a listener wrote, appended to the stream of each target; `by` is the
\* connection whose message was handled.
Deliver(out, by, box) ==
  [t \in Conns |->
     box[t] \o [i \in 1..Len(SelectSeq(out, LAMBDA m : m.to = t)) |->
                 [by |-> by, msg |-> SelectSeq(out, LAMBDA m : m.to = t)[i].msg]]]

\* ws.on('message') for the oldest message of connection c that is not yet
\* handled: the listener has no await, it runs to its end before the next
\* message event.
HandleNext(c) ==
  /\ ~crashed
  /\ SaveBudget
  /\ readyState[c] = "OPEN"
  /\ inbox[c] # << >>
  /\ LET data == Head(inbox[c])
         r == Dispatch(c, data)
     IN  /\ rooms' = r.rooms
         /\ clients' = r.clients
         /\ sent' = r.sent
         /\ outbox' = Deliver(r.sent, c, outbox)
         /\ ev' = [kind |-> "message", conn |-> c, data |-> data,
                   threw |-> r.threw, persist |-> r.persist]
         /\ saveRoomToDB(r.persist)
  /\ inbox' = [inbox EXCEPT ![c] = Tail(@)]
  /\ UNCHANGED <<readyState, crashed, nsent, app>>

\* Clients that send, and the server handling each connection's messages in
\* the order they were sent.
NextOrder ==
  \E c \in Conns :
    \/ Connect(c)
    \/ ClientSend(c)
    \/ HandleNext(c)

SpecOrder == Init /\ [][NextOrder]_vars

\* ws.onopen of the client: it sends its one join.
AppOpen(c) ==
  /\ ~crashed
  /\ readyState[c] = "OPEN"
  /\ ~app[c].joined
  /\ LET data == [type |-> "join", roomId |-> AppRoom, clientId |-> AppIds[c]]
     IN  /\ inbox' = [inbox EXCEPT ![c] = Append(@, data)]
         /\ app' = [app EXCEPT ![c].joined = TRUE, ![c].log = Append(@, data)]
  /\ ev' = [kind |-> "app-open", conn |-> c]
  /\ sent' = << >>
  /\ UNCHANGED <<rooms, clients, readyState, crashed, dbvars, outbox, nsent>>

\* ws.onmessage of the client, for the next message the server wrote to it.
AppReceive(c) ==
  /\ ~crashed
  /\ app[c].seen < Len(outbox[c])
  /\ LET msg == outbox[c][app[c].seen + 1].msg
     IN  app' = [app EXCEPT ![c] = [handleSignalingMessage(@, msg)
                                      EXCEPT !.seen = @ + 1]]
  /\ ev' = [kind |-> "app-receive", conn |-> c]
  /\ sent' = << >>
  /\ UNCHANGED <<rooms, clients, readyState, crashed, dbvars, inbox, outbox, nsent>>

\* A suspended createPeerConnection or handleOffer resumes and sends its
\* offer or answer; the loop over existing clients then goes on to its
\* next id.
AppTaskDone(c) ==
  /\ ~crashed
  /\ readyState[c] = "OPEN"
  /\ \E t \in app[c].tasks :
       LET data == [type |-> t.kind, targetId |-> Head(t.ids),
                    payload |-> "p1", fromId |-> Undefined]
           rest == Tail(t.ids)
           more == t.kind = "offer" /\ rest # << >>
       IN  /\ inbox' = [inbox EXCEPT ![c] = Append(@, data)]
           /\ app' = [app EXCEPT
                ![c].log = Append(@, data),
                ![c].ice = @ \cup {Head(t.ids)},
                ![c].pcs = IF more THEN @ \cup {Head(rest)} ELSE @,
                ![c].tasks = (@ \ {t}) \cup
                             (IF more THEN {[kind |-> "offer", ids |-> rest]} ELSE {})]
  /\ ev' = [kind |-> "app-send", conn |-> c]
  /\ sent' = << >>
  /\ UNCHANGED <<rooms, clients, readyState, crashed, dbvars, outbox, nsent>>

\* pc.onicecandidate: after setLocalDescription the peer connection hands
\* over a candidate, which is sent to the remote client.
AppIceCandidate(c) ==
  /\ ~crashed
  /\ readyState[c] = "OPEN"
  /\ \E id \in app[c].ice :
       LET data == [type |-> "ice-candidate", targetId |-> id,
                    payload |-> "p1", fromId |-> Undefined]
       IN  /\ inbox' = [inbox EXCEPT ![c] = Append(@, data)]
           /\ app' = [app EXCEPT ![c].log = Append(@, data),
                                  ![c].ice = @ \ {id}]
  /\ ev' = [kind |-> "app-send", conn |-> c]
  /\ sent' = << >>
  /\ UNCHANGED <<rooms, clients, readyState, crashed, dbvars, outbox, nsent>>

\* The clients of app.js against the server.
NextClient ==
  \E c \in Conns :
    \/ Connect(c)
    \/ AppOpen(c)
    \/ HandleNext(c)
    \/ AppReceive(c)
    \/ AppTaskDone(c)
    \/ AppIceCandidate(c)

\* Node and the browsers run every callback that is ready.
SpecClient == Init /\ [][NextClient]_vars /\ WF_vars(NextClient)

\* The server after initCouchDB settled either way, with or without
\* COUCHDB_URL in the environment, and an empty webrtc_rooms database.
InitDB ==
  /\ rooms = << >>
  /\ clients = << >>
  /\ readyState = [c \in Conns |-> "NONE"]
  /\ sent = << >>
  /\ ev = [kind |-> "init"]
  /\ crashed = FALSE
  /\ env \in {Undefined, "http://localhost:5984"}
  /\ roomsDb \in InitCouchDB(env)
  /\ store = << >>
  /\ pending = {}
  /\ clock = 0
  /\ lastSnapshot = << >>
  /\ inbox = [c \in Conns |-> << >>]
  /\ outbox = [c \in Conns |-> << >>]
  /\ nsent = [c \in Conns |-> 0]
  /\ app = [c \in Conns |-> NewApp]

\* Joins, leaves and closes, interleaved with the steps of the saves they
\* started.
NextDB ==
  \/ \E c \in Conns :
       \/ Connect(c)
       \/ ReceiveJoin(c)
       \/ ReceiveLeave(c)
       \/ Close(c)
  \/ DbStep

SpecDB == InitDB /\ [][NextDB]_vars

\* The same with a store that answers every request.
NextReachable ==
  \/ \E c \in Conns :
       \/ Connect(c)
       \/ ReceiveJoin(c)
       \/ ReceiveLeave(c)
       \/ Close(c)
  \/ DbStepReachable

SpecReachable == InitDB /\ [][NextReachable]_vars

\* ------------------------------------------------------------------ claims

IsJoin(e) == e.kind = "message" /\ e.data.type = "join"

IsSignal(e) == e.kind = "message" /\ e.data.type \in SignalTypes

\* handleLeave ran for the connection: a leave message or the close event.
IsLeave(e) ==
  \/ e.kind = "close"
  \/ e.kind = "message" /\ e.data.type = "leave"

RoomOf(rms, R) == IF R \in DOMAIN rms THEN rms[R] ELSE << >>

\* The messages of type t written to connection c by the last handler.
SentTo(out, c, t) == {i \in 1..Len(out) : out[i].to = c /\ out[i].msg.type = t}

\* C1: a connection is recorded with roomId R exactly when it is in the
\* member set of room R.
MembershipConsistency ==
  \A c \in Conns, R \in RoomVals :
    (c \in DOMAIN clients /\ clients[c].roomId = R)
      <=> (R \in DOMAIN rooms /\ c \in Members(rooms[R]))

\* C2: every room of the room registry has a non-empty member set.
RoomExistsIffNonEmpty ==
  \A R \in DOMAIN rooms : Len(rooms[R]) > 0

\* C2 witness: handleLeave removed the last member of a room and the room
\* is gone.
LastMemberLeftWitness ==
  /\ IsLeave(ev)
  /\ ev.persist # NoPersist
  /\ ev.persist[1].participants = << >>
  /\ ev.persist[1].roomId \notin DOMAIN rooms

\* C3: when handleLeave runs for the only member of room R (a leave message
\* or a close), R is absent from the room registry afterwards.
EmptyRoomCleanup ==
  [][\A c \in Conns, R \in RoomVals :
       (/\ R \in DOMAIN rooms
        /\ rooms[R] = <<c>>
        /\ IsLeave(ev')
        /\ ev'.conn = c)
       => R \notin DOMAIN rooms']_vars

\* C4: a join received from a connection with no bound identity binds it to
\* (clientId, roomId), adds it to the room and sends it exactly one
\* existing-clients reply.
JoinCompletes ==
  [][\A c \in Conns :
       (IsJoin(ev') /\ ev'.conn = c /\ c \notin DOMAIN clients)
       => /\ c \in DOMAIN clients'
          /\ clients'[c] = [id |-> ev'.data.clientId, roomId |-> ev'.data.roomId]
          /\ c \in Members(RoomOf(rooms', ev'.data.roomId))
          /\ Cardinality(SentTo(sent', c, "existing-clients")) = 1]_vars

\* C5: every existing-clients message is the reply of a join, goes to the
\* joiner, and lists in order the clientIds of the members the room had before
\* the joiner was added.
JoinReplyCompleteness ==
  [][\A i \in 1..Len(sent') :
       sent'[i].msg.type = "existing-clients"
       => /\ IsJoin(ev')
          /\ sent'[i].to = ev'.conn
          /\ LET prior == RoomOf(rooms, ev'.data.roomId)
             IN  /\ \A k \in 1..Len(prior) : prior[k] \in DOMAIN clients'
                 /\ sent'[i].msg.clients
                      = [k \in 1..Len(prior) |-> clients'[prior[k]].id]]_vars

\* C5 witness: a joiner was told of a member that was in the room before it.
JoinReplyWitness ==
  /\ IsJoin(ev)
  /\ Len(sent) > 0
  /\ sent[1].msg.type = "existing-clients"
  /\ Len(sent[1].msg.clients) = 1
  /\ ev.conn \in Members(rooms[ev.data.roomId])
  /\ Len(rooms[ev.data.roomId]) = 2

\* C6: on a join of c for room R every prior member of R with an open
\* transport gets exactly one new-client carrying c's clientId, and c gets
\* none.
ArrivalBroadcast ==
  [][\A c \in Conns :
       (IsJoin(ev') /\ ev'.conn = c)
       => /\ \A m \in Members(RoomOf(rooms, ev'.data.roomId)) \ {c} :
               IsOpen(readyState, m)
               => /\ Cardinality(SentTo(sent', m, "new-client")) = 1
                  /\ \A i \in SentTo(sent', m, "new-client") :
                       sent'[i].msg.clientId = ev'.data.clientId
          /\ SentTo(sent', c, "new-client") = {}]_vars

\* C7: a relayed offer/answer/ice-candidate with targetId X from a bound
\* sender goes only to members of the sender's room whose clientId is X;
\* with no such member nothing is sent.
TargetedDelivery ==
  (IsSignal(ev) /\ ev.conn \in DOMAIN clients)
  => LET R == RoomOf(rooms, clients[ev.conn].roomId)
         X == ev.data.targetId
     IN  /\ \A i \in 1..Len(sent) :
               /\ sent[i].to \in Members(R)
               /\ sent[i].to \in DOMAIN clients
               /\ clients[sent[i].to].id = X
               /\ sent[i].msg.type = ev.data.type
         /\ (~ \E m \in Members(R) : m \in DOMAIN clients /\ clients[m].id = X)
              => sent = << >>

\* C7 witness: a message reached its target, one of the two members of the
\* sender's room, and nobody else.
TargetedDeliveryWitness ==
  /\ IsSignal(ev)
  /\ ev.conn \in DOMAIN clients
  /\ Len(sent) = 1
  /\ sent[1].to # ev.conn
  /\ Len(RoomOf(rooms, clients[ev.conn].roomId)) = 2

\* C8: a relayed message goes only to a connection whose recorded roomId is
\* the sender's recorded roomId.
RelayInsideRoom ==
  (IsSignal(ev) /\ ev.conn \in DOMAIN clients)
  => \A i \in 1..Len(sent) :
       /\ sent[i].to \in DOMAIN clients
       /\ clients[sent[i].to].roomId = clients[ev.conn].roomId

\* C9: a relayed message is the inbound message with fromId set to the
\* sender's recorded clientId, whatever fromId the inbound message had.
RelayCarriesSender ==
  IsSignal(ev)
  => \A i \in 1..Len(sent) :
       /\ ev.conn \in DOMAIN clients
       /\ sent[i].msg = [type |-> ev.data.type,
                         targetId |-> ev.data.targetId,
                         payload |-> ev.data.payload,
                         fromId |-> clients[ev.conn].id]

\* C9 witness: a message that came with a fromId other than its sender's
\* clientId was relayed.
RelayOverwriteWitness ==
  /\ IsSignal(ev)
  /\ Len(sent) > 0
  /\ ev.data.fromId \in ClientIds
  /\ ev.data.fromId # clients[ev.conn].id

\* C10: when handleLeave runs for a bound connection, every remaining member
\* of its room with an open transport gets exactly one client-left carrying
\* its clientId; the close that follows a leave of the same connection sends
\* nothing more.
DepartureBroadcast ==
  [][\A c \in Conns :
       /\ (IsLeave(ev') /\ ev'.conn = c /\ c \in DOMAIN clients)
          => \A m \in Members(RoomOf(rooms, clients[c].roomId)) \ {c} :
               IsOpen(readyState', m)
               => /\ Cardinality(SentTo(sent', m, "client-left")) = 1
                  /\ \A i \in SentTo(sent', m, "client-left") :
                       sent'[i].msg.clientId = clients[c].id
       /\ (/\ ev.kind = "message" /\ ev.data.type = "leave" /\ ev.conn = c
           /\ ev'.kind = "close" /\ ev'.conn = c)
          => sent' = << >>]_vars

IsLeaveMsg(e) == e.kind = "message" /\ e.data.type = "leave"

\* C11: handleLeave for a connection with no bound identity, or for a
\* connection whose previous message was a leave, sends nothing, throws
\* nothing and leaves both registries unchanged.
IdempotentLeave ==
  \A c \in Conns :
    (/\ ~crashed
     /\ readyState[c] \in {"OPEN", "CLOSING"}
     /\ \/ c \notin DOMAIN clients
        \/ IsLeaveMsg(ev) /\ ev.conn = c)
    => LET r == handleLeave(c)
       IN  /\ r.sent = << >>
           /\ ~r.threw
           /\ r.rooms = rooms
           /\ r.clients = clients

\* C12: a join that directly follows the leave by which the connection left
\* its room is not accepted: the connection is not bound and no room changes.
LeftIsTerminal ==
  [][\A c \in Conns :
       (/\ IsLeaveMsg(ev) /\ ev.conn = c /\ ev.persist # NoPersist
        /\ IsJoin(ev') /\ ev'.conn = c)
       => /\ c \notin DOMAIN clients'
          /\ rooms' = rooms]_vars

\* C13: an offer, answer, ice-candidate or leave from a connection with no
\* bound identity sends nothing and changes neither registry.
UnboundDropped ==
  [][\A c \in Conns :
       (/\ ev'.kind = "message" /\ ev'.conn = c
        /\ ev'.data.type \in SignalTypes \cup {"leave"}
        /\ c \notin DOMAIN clients)
       => /\ sent' = << >>
          /\ rooms' = rooms
          /\ clients' = clients]_vars

\* C13 witness: a connection without identity addressed an open member of a
\* room by its clientId.
UnboundDroppedWitness ==
  /\ IsSignal(ev)
  /\ ev.conn \notin DOMAIN clients
  /\ \E m \in DOMAIN clients :
       /\ clients[m].id = ev.data.targetId
       /\ IsOpen(readyState, m)
       /\ m \in Members(RoomOf(rooms, clients[m].roomId))

\* C14: a malformed message or one of a missing or unrecognized type changes
\* neither registry and sends nothing.
MalformedDropped ==
  [][(ev'.kind = "message" /\ ev'.data.type \in OtherTypes \cup {"<malformed>"})
     => /\ rooms' = rooms
        /\ clients' = clients
        /\ sent' = << >>]_vars

\* C14 witness: a joined connection sent a message of an unrecognized type
\* while its room had another member.
MalformedDroppedWitness ==
  /\ ev.kind = "message"
  /\ ev.data.type \in OtherTypes
  /\ ev.conn \in DOMAIN clients
  /\ Len(RoomOf(rooms, clients[ev.conn].roomId)) = 2

\* C16: no exception escapes a listener, and handleLeave on close runs to
\* completion and unbinds the connection.
NoFatalEvent ==
  /\ ~crashed
  /\ ev.kind = "close" => (~ev.threw /\ ev.conn \notin DOMAIN clients)

\* C19 (as claimed): an error event on a bound connection removes it from its
\* room and unbinds it.
TransportErrorIsLeave ==
  [][\A c \in Conns :
       (ev'.kind = "error" /\ ev'.conn = c /\ c \in DOMAIN clients)
       => /\ c \notin DOMAIN clients'
          /\ c \notin Members(RoomOf(rooms', clients[c].roomId))]_vars

\* C19 (amended): an error event is only logged: it changes neither registry
\* nor a readyState and sends nothing.
TransportErrorOnlyLogs ==
  [][ev'.kind = "error"
     => /\ rooms' = rooms
        /\ clients' = clients
        /\ readyState' = readyState
        /\ sent' = << >>]_vars

\* C19 witness: an error event was handled for a bound connection that is
\* still a member of its room next to an open member.
TransportErrorWitness ==
  /\ ev.kind = "error"
  /\ ev.conn \in DOMAIN clients
  /\ ev.conn \in Members(RoomOf(rooms, clients[ev.conn].roomId))
  /\ \E m \in Members(rooms[clients[ev.conn].roomId]) \ {ev.conn} :
       IsOpen(readyState, m)

\* c is a member of room R1 while its recorded roomId is another room.
Orphaned(c, R1) ==
  /\ R1 \in DOMAIN rooms
  /\ c \in Members(rooms[R1])
  /\ c \in DOMAIN clients
  /\ clients[c].roomId # R1

\* C20: a join for R2 from a member of R1 bound to R1 rebinds it to R2 and
\* keeps it in R1; while it is open it gets the new-client and client-left
\* notices of R1; its own leave or close removes it from R2 only.
SecondJoin ==
  [][\A c \in Conns, R1 \in RoomVals :
       /\ (/\ IsJoin(ev') /\ ev'.conn = c /\ ev'.data.roomId # R1
           /\ c \in DOMAIN clients /\ clients[c].roomId = R1
           /\ c \in Members(RoomOf(rooms, R1)))
          => /\ clients'[c].roomId = ev'.data.roomId
             /\ clients'[c].id = ev'.data.clientId
             /\ c \in Members(RoomOf(rooms', R1))
       /\ (Orphaned(c, R1) /\ IsOpen(readyState', c))
          => /\ (/\ IsJoin(ev') /\ ev'.conn # c /\ ev'.data.roomId = R1
                 /\ ~ev'.threw)
                => Cardinality(SentTo(sent', c, "new-client")) = 1
             /\ (/\ IsLeave(ev') /\ ev'.conn # c
                 /\ ev'.conn \in DOMAIN clients
                 /\ clients[ev'.conn].roomId = R1)
                => Cardinality(SentTo(sent', c, "client-left")) = 1
       /\ (Orphaned(c, R1) /\ IsLeave(ev') /\ ev'.conn = c)
          => /\ c \in Members(RoomOf(rooms', R1))
             /\ c \notin Members(RoomOf(rooms', clients[c].roomId))]_vars

\* C20 witness: a connection bound to one room got the new-client notice of
\* another room, of which it is still a member.
SecondJoinWitness ==
  /\ IsJoin(ev)
  /\ \E c \in Conns \ {ev.conn} :
       /\ Orphaned(c, ev.data.roomId)
       /\ SentTo(sent, c, "new-client") # {}

\* C15: a join whose roomId is missing or the empty string binds nobody,
\* creates or changes no room and sends nothing.
JoinWithoutRoomRejected ==
  [][(IsJoin(ev') /\ ev'.data.roomId \in NoRoomIds)
     => /\ clients' = clients
        /\ rooms' = rooms
        /\ sent' = << >>]_vars

\* The outcomes of a save that are a failure of the store.
FailedSteps == {"get-failed", "insert-conflict", "insert-failed"}

IsDb(e) == e.kind = "db"

\* A listener that called saveRoomToDB while roomsDb was assigned.
StartsSave(e) ==
  /\ e.kind \in {"message", "close"}
  /\ e.persist # NoPersist
  /\ roomsDb

\* C17: persistence is fire-and-forget.  The step of a listener that starts
\* a save ends with the registries updated and the reply and notices sent
\* while the save is only at its first await (the store is untouched); every
\* later step of a save, whatever its outcome, leaves both registries, the
\* sockets and the messages sent unchanged; a failed save is dropped, not
\* started again, and does not change the store.
FireAndForget ==
  [][/\ StartsSave(ev')
        => /\ pending' = pending \cup {NewSave(ev'.persist[1], clock')}
           /\ NewSave(ev'.persist[1], clock') \notin pending
           /\ store' = store
           /\ IsJoin(ev') => SentTo(sent', ev'.conn, "existing-clients") # {}
           /\ ev'.conn \notin Members(RoomOf(rooms', ev'.persist[1].roomId))
                <=> ~IsJoin(ev')
     /\ IsDb(ev')
        => /\ rooms' = rooms
           /\ clients' = clients
           /\ sent' = sent
           /\ readyState' = readyState
           /\ crashed' = crashed
     /\ (IsDb(ev') /\ ev'.step \in FailedSteps)
        => /\ pending' = pending \ {ev'.save}
           /\ store' = store]_vars

\* C17 witness: a save ended on a conflict while a room has members and the
\* last listener's messages are still the ones that were sent.
FireAndForgetWitness ==
  /\ IsDb(ev)
  /\ ev.step = "insert-conflict"
  /\ rooms # << >>
  /\ sent # << >>

\* C18: with no COUCHDB_URL in the environment no read or write of the store
\* is ever attempted: no save is under way and the store holds no document.
NoStoreWithoutConfig ==
  env = Undefined => (pending = {} /\ store = << >>)

\* The participants a save carries are the recorded ids of the members of
\* room R in registry rms, in order.
CarriesMembers(p, rms, cl, R) ==
  /\ p # NoPersist
  /\ p[1].roomId = R
  /\ LET room == RoomOf(rms, R)
     IN  /\ Len(p[1].participants) = Len(room)
         /\ \A i \in 1..Len(room) :
              /\ room[i] \in DOMAIN cl
              /\ p[1].participants[i] = cl[room[i]].id

\* C21: a join, leave or close that changes the member set of room R calls
\* saveRoomToDB once, for R, with the clientIds of R's members after the
\* change (the empty list when the last member left).
PersistAfterChange ==
  [][\A R \in RoomVals :
       (/\ ev'.kind \in {"message", "close"}
        /\ Members(RoomOf(rooms', R)) # Members(RoomOf(rooms, R)))
       => CarriesMembers(ev'.persist, rooms', clients', R)]_vars

\* C26: every member of every room has an entry in `clients`.
MembersHaveIdentity ==
  \A R \in DOMAIN rooms : \A c \in Members(rooms[R]) : c \in DOMAIN clients

\* C27: once the close event of a connection was handled, the connection is
\* a member of no room and has no entry in `clients`.
ClosedIsGone ==
  \A c \in Conns :
    readyState[c] = "CLOSED"
      => /\ c \notin DOMAIN clients
         /\ \A R \in DOMAIN rooms : c \notin Members(rooms[R])

\* C28: broadcasts stay inside the room of the event.  A join into R writes
\* the existing-clients reply to the joiner and new-client only to other
\* members of R; a leave or close of a connection bound to R writes
\* client-left only to members of R other than the leaver.  Nothing else is
\* written, and every connection written to has joined (it has an entry in
\* `clients`): members of other rooms only, unjoined connections and the
\* leaver get nothing.
BroadcastInsideRoom ==
  [][/\ IsJoin(ev')
        => \A i \in 1..Len(sent') :
             \/ /\ sent'[i].to = ev'.conn
                /\ sent'[i].msg.type = "existing-clients"
             \/ /\ sent'[i].msg.type = "new-client"
                /\ sent'[i].to # ev'.conn
                /\ sent'[i].to \in Members(RoomOf(rooms', ev'.data.roomId))
                /\ sent'[i].to \in DOMAIN clients
     /\ (IsLeave(ev') /\ ev'.conn \in DOMAIN clients)
        => \A i \in 1..Len(sent') :
             /\ sent'[i].msg.type = "client-left"
             /\ sent'[i].to # ev'.conn
             /\ sent'[i].to \in Members(RoomOf(rooms, clients[ev'.conn].roomId))
             /\ sent'[i].to \in DOMAIN clients]_vars

BroadcastTypes == {"new-client", "client-left"} \cup SignalTypes

\* C24: every message a listener wrote went to a connection whose readyState
\* is OPEN, and no connection got the same kind of broadcast twice from one
\* event.
SendsOnlyToOpen ==
  /\ \A i \in 1..Len(sent) : readyState[sent[i].to] = "OPEN"
  /\ \A c \in Conns, t \in BroadcastTypes : Cardinality(SentTo(sent, c, t)) <= 1

\* C23: a save that succeeds is an upsert.  The stored document carries the
\* participants of the save, their number as participantCount and the save's
\* timestamp as lastActivity; when a document was stored before, createdAt
\* and roomId keep their values, otherwise createdAt equals lastActivity; no
\* other document changes.  A get that fails with another error than 404
\* ends the save and leaves the store as it was.
SaveIsUpsert ==
  [][/\ (IsDb(ev') /\ ev'.step = "insert-ok")
        => LET w == ev'.save
               R == w.roomId
           IN  /\ R \in DOMAIN store'
               /\ store'[R].participants = w.participants
               /\ store'[R].participantCount = Len(store'[R].participants)
               /\ store'[R].lastActivity = w.timestamp
               /\ R \in DOMAIN store
                    => /\ store'[R].createdAt = store[R].createdAt
                       /\ store'[R].roomId = store[R].roomId
               /\ R \notin DOMAIN store
                    => /\ store'[R].createdAt = store'[R].lastActivity
                       /\ store'[R].roomId = R
               /\ \A Q \in DOMAIN store \ {R} :
                    Q \in DOMAIN store' /\ store'[Q] = store[Q]
               /\ DOMAIN store' = DOMAIN store \cup {R}
     /\ (IsDb(ev') /\ ev'.step = "get-failed")
        => /\ store' = store
           /\ \A x \in pending' : x.timestamp # ev'.save.timestamp]_vars

\* C23 witness: a save updated a document that was created by an earlier
\* save, and the document kept its createdAt.
SaveIsUpsertWitness ==
  /\ IsDb(ev)
  /\ ev.step = "insert-ok"
  /\ store[ev.save.roomId].createdAt < store[ev.save.roomId].lastActivity

\* C22: with a store that answers every request, once no save is under way
\* the stored participants of every room are those of the last save that was
\* started for the room.
MirrorConverges ==
  (roomsDb /\ pending = {})
    => \A R \in DOMAIN lastSnapshot :
         /\ R \in DOMAIN store
         /\ store[R].participants = lastSnapshot[R]

IsRelayBy(e, S) == e.by = S /\ e.msg.type \in SignalTypes

\* C25: in what connection T was sent, the messages relayed from connection
\* S appear in the order S sent them (their payloads are S's send numbers),
\* and no message relayed from S comes before a new-client notice that
\* announces S.
OrderPreserved ==
  \A T \in Conns, S \in Conns :
    \A i \in 1..Len(outbox[T]), j \in 1..Len(outbox[T]) :
      (i < j /\ IsRelayBy(outbox[T][i], S))
        => /\ IsRelayBy(outbox[T][j], S)
                => outbox[T][i].msg.payload < outbox[T][j].msg.payload
           /\ ~(outbox[T][j].by = S /\ outbox[T][j].msg.type = "new-client")

\* The position of connection c in the room of the clients, 0 when it is
\* not a member: the order of the joins.
Pos(c) ==
  LET room == RoomOf(rooms, AppRoom)
  IN  IF c \in Members(room)
      THEN CHOOSE i \in 1..Len(room) : room[i] = c
      ELSE 0

\* Client c sent a message of type t addressed to client d.
SentBy(c, t, d) ==
  {k \in 1..Len(app[c].log) :
     /\ app[c].log[k].type = t
     /\ app[c].log[k].targetId = AppIds[d]}

\* Offers go from the later joiner to the earlier member, once; an answer
\* goes from the earlier member to a later joiner whose offer it took.
RolesSafe ==
  \A c \in Conns, d \in Conns :
    /\ SentBy(c, "offer", d) # {}
         => /\ 0 < Pos(d) /\ Pos(d) < Pos(c)
            /\ Cardinality(SentBy(c, "offer", d)) = 1
    /\ SentBy(c, "answer", d) # {}
         => /\ 0 < Pos(c) /\ Pos(c) < Pos(d)
            /\ \E i \in 1..app[c].seen :
                 /\ outbox[c][i].msg.type = "offer"
                 /\ outbox[c][i].msg.fromId = AppIds[d]

\* Every pair of clients got its offer and its answer.
RolesDone ==
  \A c \in Conns, d \in Conns :
    c # d => \/ SentBy(c, "offer", d) # {} /\ SentBy(d, "answer", c) # {}
             \/ SentBy(d, "offer", c) # {} /\ SentBy(c, "answer", d) # {}

\* C29: of two clients of app.js that join the same room once each with
\* distinct ids, the later joiner, and only it, sends one offer to the
\* earlier member, which only answers, to the fromId of the offer.
ClientRoles == [] RolesSafe /\ <> RolesDone

\* C29 witness: the earlier member sent its answer to the later joiner.
ClientRolesWitness ==
  \E c \in Conns, d \in Conns :
    /\ Pos(c) < Pos(d)
    /\ SentBy(d, "offer", c) # {}
    /\ SentBy(c, "answer", d) # {}

====
